---- MODULE Spec2Model ----
(***************************************************************************)
(* Transaction engine of SequelizeTypeScript (src/unnamed/part_000):       *)
(* managed transactions (sequelize.transaction), their nesting modes and   *)
(* the AsyncLocalStorage that carries the ambient transaction.             *)
(*                                                                         *)
(* A "call" is one invocation of sequelize.transaction(options, callback). *)
(* Calls are made by top-level code (caller 0) or by the callback of a     *)
(* call that is running; several calls are in flight at once and their     *)
(* steps interleave at every await of the code.  Callers in this model do  *)
(* not pass options.transaction explicitly: the only transaction a call    *)
(* can pick up is the ambient one.                                         *)
(*                                                                         *)
(* The bulk operations sequelize.truncate and sequelize.destroyAll run     *)
(* over the models of the model manager; one bulk call is made in a        *)
(* behaviour and its model operations settle in any order.                 *)
(*                                                                         *)
(* sequelize.withConnection calls run side by side, each with its own      *)
(* connection.  The Snowflake query generator                              *)
(* (src/packages/core/src/dialects/snowflake/query-generator-typescript.ts)*)
(* is stateless: a behaviour holds one call of one of its methods, and a   *)
(* statement is the sequence of its SQL fragments.                         *)
(***************************************************************************)
EXTENDS Integers, Sequences, FiniteSets, TLC

\* Number of sequelize.transaction calls made in one behaviour.
MaxCalls == 2

\* Number of models the model manager can hold.
MaxModels == 3

\* Number of sequelize.withConnection calls made in one behaviour.
MaxSessions == 2

\* Number of keys in the options object handed to a query-generator method.
MaxOptionKeys == 3

\* TransactionNestMode
NestModes == {"separate", "reuse", "savepoint"}

\* Values of options.isolationLevel a caller asks for.
IsolationLevels == {"READ_COMMITTED", "SERIALIZABLE"}

\* Errors thrown by a callback.
CallbackErrors == {"E1"}

\* Errors thrown by transaction.rollback().
RollbackErrors == {"E2"}

\* Errors thrown by a callback, and by transaction.rollback().
Errors == CallbackErrors \cup RollbackErrors

\* Errors thrown by transaction.prepareEnvironment() and transaction.commit().
ConnectionErrors == {"E3"}

\* Values a callback resolves with.
Results == {"R1"}

Undefined == "undefined"

\* `undefined` where a Transaction is expected (transactions are numbered from 1).
NoTransaction == 0

CompatibilityError == "TransactionCompatibilityError"

MissingCallbackError == "sequelize.transaction requires a callback"

\* Errors thrown by model.truncate() and model.destroy().
QueryErrors == {"E4"}

CyclicReferencesError == "Sequelize#truncate: Some of your models have cyclic references"

ForeignKeyChecksError == "Sequelize#truncate: dialect does not support disabling foreign key checks"

LimitOptionError == "sequelize.destroyAll does not support the limit option."

TruncateOptionError == "sequelize.destroyAll does not support the truncate option."

\* `undefined` where a connection is expected (the scope's connection is 1).
NoConnection == 0

VARIABLES
  transactionCls,              \* TRUE iff #transactionCls is an AsyncLocalStorage
  defaultTransactionNestMode,  \* this.options.defaultTransactionNestMode
  store,                       \* the AsyncLocalStorage: async context -> its store
  transactions,                \* every Transaction constructed so far
  calls,                       \* every sequelize.transaction call made so far
  modelManager,                \* this.modelManager: the models and their foreign keys
  dialect,                     \* this.dialect.supports.constraints
  bulk,                        \* the sequelize.truncate or sequelize.destroyAll call
  modelOps,                    \* per model: its model.truncate() or model.destroy()
  query,                       \* the call of a Snowflake query-generator method
  sessions                     \* every sequelize.withConnection call made so far

transactionVars == <<transactionCls, defaultTransactionNestMode, store, transactions, calls>>

bulkVars == <<modelManager, dialect, bulk, modelOps>>

vars == <<transactionCls, defaultTransactionNestMode, store, transactions, calls,
          modelManager, dialect, bulk, modelOps, query, sessions>>

Models == 1..MaxModels

CallIds == 1..Len(calls)

TransactionIds == 1..Len(transactions)

\* Async contexts: 0 is the context of top-level code, c the one cls.run makes
\* for call c.
Contexts == 0..MaxCalls

----------------------------------------------------------------------------
\* AsyncLocalStorage

\* cls.run(transaction, fn) as one slot shared by every context.
ClsRunGlobal(s, context, transaction) ==
  [c \in DOMAIN s |-> transaction]

\* cls.run(transaction, fn) that also overwrites the store of top-level code.
ClsRunLeaksToRoot(s, context, transaction) ==
  [s EXCEPT ![context] = transaction, ![0] = transaction]

\* fn is run without the store being set.
ClsRunDropped(s, context, transaction) ==
  s

\* cls.run(transaction, fn): fn and everything it awaits run in a fresh async
\* context whose store is `transaction`; no other context is touched.
ClsRun(s, context, transaction) ==
  [s EXCEPT ![context] = transaction]

\* Without an AsyncLocalStorage the lookup falls back to the transaction
\* constructed last, as a field shared by the whole instance would.
GetCurrentClsTransactionGlobalFallback(context) ==
  IF transactionCls THEN store[context] ELSE Len(transactions)

\* this.#transactionCls?.getStore(), evaluated in async context `context`.
GetCurrentClsTransaction(context) ==
  IF transactionCls THEN store[context] ELSE NoTransaction

\* The async context the code of caller `caller` runs in.
ContextOf(caller) ==
  IF caller = 0 THEN 0 ELSE calls[caller].context

----------------------------------------------------------------------------
\* sequelize.transaction: the part before wrappedCallback

\* options.nestMode ?? this.options.defaultTransactionNestMode
ResolveNestMode(options) ==
  IF options.nestMode = Undefined THEN defaultTransactionNestMode ELSE options.nestMode

\* setTransactionFromCls: options.transaction becomes the ambient transaction, if any.
SetTransactionFromCls(context) ==
  GetCurrentClsTransaction(context)

\* The nest mode is ignored and the ambient transaction always picked up.
NormalizedTransactionIgnoringMode(nestMode, context) ==
  SetTransactionFromCls(context)

\* normalizedOptions.transaction after the nestMode branch.
NormalizedTransaction(nestMode, context) ==
  IF nestMode = "separate" THEN NoTransaction ELSE SetTransactionFromCls(context)

\* assertTransactionIsCompatibleWithOptions does not throw.
IsCompatibleWithOptions(transaction, isolationLevel) ==
  transactions[transaction].isolationLevel = isolationLevel

\* The compatibility assertion is skipped.
ThrowsCompatibilityErrorNever(nestMode, transaction, isolationLevel) ==
  FALSE

\* The else-branch of the nestMode test throws.
ThrowsCompatibilityError(nestMode, transaction, isolationLevel) ==
  /\ nestMode # "separate"
  /\ transaction # NoTransaction
  /\ ~IsCompatibleWithOptions(transaction, isolationLevel)

\* Every mode but separate passes the given transaction through.
UsesGivenTransactionUnlessSeparate(nestMode, transaction) ==
  nestMode # "separate" /\ transaction # NoTransaction

\* The condition of the ternary that picks normalizedOptions.transaction
\* over new Transaction(...).
UsesGivenTransaction(nestMode, transaction) ==
  nestMode = "reuse" /\ transaction # NoTransaction

\* new Transaction(sequelize, normalizedOptions), constructed by call `creator`.
NewTransaction(normalizedTransaction, isolationLevel, creator) ==
  [parent |-> normalizedTransaction, isolationLevel |-> isolationLevel, creator |-> creator]

\* The record of a call on entry: nothing invoked, promise pending.
NewCall(caller, awaited, nestMode, isolationLevel) ==
  [ kind |-> "managed", caller |-> caller, awaited |-> awaited,
    nestMode |-> nestMode, isolationLevel |-> isolationLevel,
    before |-> GetCurrentClsTransaction(ContextOf(caller)),
    context |-> ContextOf(caller),
    transaction |-> NoTransaction, isReusedTransaction |-> FALSE,
    pc |-> "entry", settled |-> "pending", value |-> Undefined,
    prepares |-> 0, callbacks |-> 0, commits |-> 0, rollbacks |-> 0,
    received |-> NoTransaction, result |-> Undefined, error |-> Undefined,
    prepareOutcome |-> "none", uow |-> "none", uowValue |-> Undefined,
    commitOutcome |-> "none", rollbackOutcome |-> "none",
    returned |-> NoTransaction ]

\* The promise returned by sequelize.transaction rejects.
Rejected(call, error) ==
  [call EXCEPT !.pc = "done", !.settled = "rejected", !.value = error]

\* The promise returned by sequelize.transaction resolves.
Resolved(call, result) ==
  [call EXCEPT !.pc = "done", !.settled = "resolved", !.value = result]

\* callback(transaction) is invoked.
InvokeCallback(call) ==
  [call EXCEPT !.pc = "callback", !.callbacks = @ + 1, !.received = call.transaction]

\* A reused transaction is prepared like a new one.
WrappedCallbackStartAlwaysPrepares(call) ==
  [call EXCEPT !.pc = "prepare", !.prepares = @ + 1]

\* wrappedCallback up to its first await.
WrappedCallbackStart(call) ==
  IF call.isReusedTransaction
    THEN InvokeCallback(call)
    ELSE [call EXCEPT !.pc = "prepare", !.prepares = @ + 1]

----------------------------------------------------------------------------
\* wrappedCallback: what follows each await

\* await transaction.prepareEnvironment() returns.
PrepareEnvironmentResolved(call) ==
  InvokeCallback(call)

\* prepareEnvironment is awaited inside the try block: its failure is rolled back.
PrepareEnvironmentRejectedRollsBack(call, error) ==
  [call EXCEPT !.pc = "rollback", !.rollbacks = @ + 1, !.error = error]

\* await transaction.prepareEnvironment() throws: nothing catches it.
PrepareEnvironmentRejected(call, error) ==
  Rejected(call, error)

\* commit is issued, but the callback's value is not kept.
CallbackResolvedDropsResult(call, result) ==
  IF call.isReusedTransaction
    THEN Resolved(call, Undefined)
    ELSE [call EXCEPT !.pc = "commit", !.commits = @ + 1, !.result = Undefined]

\* transaction.commit() is invoked but not awaited: the call resolves at once.
CallbackResolvedCommitNotAwaited(call, result) ==
  IF call.isReusedTransaction
    THEN Resolved(call, result)
    ELSE [Resolved(call, result) EXCEPT !.commits = @ + 1, !.result = result]

\* result = await callback(transaction) returns.
CallbackResolved(call, result) ==
  IF call.isReusedTransaction
    THEN Resolved(call, result)
    ELSE [call EXCEPT !.pc = "commit", !.commits = @ + 1, !.result = result]

\* The catch block rethrows without rolling back.
CallbackRejectedNoRollback(call, error) ==
  Rejected(call, error)

\* await callback(transaction) throws.
CallbackRejected(call, error) ==
  IF call.isReusedTransaction
    THEN Rejected(call, error)
    ELSE [call EXCEPT !.pc = "rollback", !.rollbacks = @ + 1, !.error = error]

\* After the rollback the code falls through to the commit.
RollbackSettledThenCommits(call, outcome) ==
  [call EXCEPT !.pc = "commit", !.commits = @ + 1, !.result = call.error]

\* The inner try/catch is missing: the rollback's own error replaces the callback's.
RollbackSettledUnguarded(call, outcome) ==
  Rejected(call, IF outcome = "ok" THEN call.error ELSE outcome)

\* await transaction.rollback() returns or throws; then `throw error`.
RollbackSettled(call, outcome) ==
  Rejected(call, call.error)

\* await transaction.commit() returns; return result.
CommitResolved(call) ==
  Resolved(call, call.result)

\* commit is awaited inside the try block: its failure is rolled back.
CommitRejectedRollsBack(call, error) ==
  [call EXCEPT !.pc = "rollback", !.rollbacks = @ + 1, !.error = error]

\* await transaction.commit() throws.
CommitRejected(call, error) ==
  Rejected(call, error)

----------------------------------------------------------------------------
\* sequelize.startUnmanagedTransaction

\* The new transaction is made ambient with cls.enterWith.
UnmanagedStoreEntered(s, context, transaction) ==
  [s EXCEPT ![context] = transaction]

\* The AsyncLocalStorage after startUnmanagedTransaction constructed
\* `transaction` in async context `context`: the method never touches it.
UnmanagedStore(s, context, transaction) ==
  s

\* startUnmanagedTransaction up to its await: the transaction is constructed
\* and prepareEnvironment is invoked.
UnmanagedStart(call, transaction) ==
  [call EXCEPT !.kind = "unmanaged", !.transaction = transaction,
               !.pc = "unmanagedPrepare", !.prepares = @ + 1]

\* await transaction.prepareEnvironment() returns; return transaction.
UnmanagedPrepareResolved(call) ==
  [Resolved(call, "transaction") EXCEPT !.returned = call.transaction]

\* await transaction.prepareEnvironment() throws.
UnmanagedPrepareRejected(call, error) ==
  Rejected(call, error)

----------------------------------------------------------------------------
\* State machine

\* The instance after construction with CLS transactions set up
\* (_setupTransactionCls has run) and the default nest mode `reuse`.
\* No bulk call has been made.
NoBulk ==
  [ op |-> "none",
    options |-> [ cascade |-> FALSE, withoutForeignKeyChecks |-> FALSE,
                  limit |-> FALSE, truncate |-> FALSE ],
    pc |-> "idle",
    settled |-> "pending", value |-> "none",
    models |-> <<>>, index |-> 0, started |-> <<>>,
    entered |-> 0, checks |-> "enabled", outcome |-> "none" ]

\* No model.truncate() or model.destroy() has been invoked.
NoModelOps ==
  [m \in Models |-> [ state |-> "idle", error |-> "none",
                      connection |-> NoConnection, checks |-> "enabled" ]]

\* No query-generator method has been called.
NoQuery ==
  [ op |-> "none", supplied |-> FALSE, options |-> <<>>,
    table |-> [tableName |-> "none", schema |-> "none"],
    outcome |-> "none", error |-> "none", validated |-> FALSE, sql |-> <<>> ]

\* A sequelize.withConnection call at its entry.
NewSession ==
  [ pc |-> "entry", destroyConnection |-> FALSE, connection |-> NoConnection,
    gets |-> 0, callbacks |-> 0, releases |-> 0, destroys |-> 0,
    uow |-> "none", uowValue |-> "none", destroyOutcome |-> "none",
    settled |-> "pending", value |-> "none" ]

InitUnused ==
  /\ query = NoQuery
  /\ sessions = <<>>

\* The instance right after construction: no model is defined yet.
InitBulkUnused ==
  /\ modelManager = [ models |-> <<>>, references |-> {},
                      sorted |-> [cyclic |-> FALSE, order |-> <<>>] ]
  /\ dialect = [foreignKeyChecksDisableable |-> FALSE]
  /\ bulk = NoBulk
  /\ modelOps = NoModelOps

Init ==
  /\ transactionCls = TRUE
  /\ defaultTransactionNestMode = "reuse"
  /\ store = [c \in Contexts |-> NoTransaction]
  /\ transactions = <<>>
  /\ calls = <<>>
  /\ InitBulkUnused
  /\ InitUnused

\* Code that may call sequelize.transaction: top-level code, or a running callback.
Callers == {0} \cup {c \in CallIds : calls[c].pc = "callback"}

CallOptions ==
  [ nestMode : NestModes \cup {Undefined}, isolationLevel : IsolationLevels ]

\* sequelize.transaction called without a callback.
TransactionCallWithoutCallback(caller, awaited) ==
  /\ Len(calls) < MaxCalls
  /\ caller \in Callers
  /\ caller = 0 => ~awaited
  /\ calls' = Append(calls, Rejected(NewCall(caller, awaited, Undefined, Undefined),
                                     MissingCallbackError))
  /\ UNCHANGED <<transactionCls, defaultTransactionNestMode, store, transactions>>
  /\ UNCHANGED bulkVars
  /\ UNCHANGED <<query, sessions>>

\* sequelize.transaction(options, callback), from its entry to the first await
\* of wrappedCallback, whoever makes the call.
TransactionCallBy(caller, awaited, options) ==
  LET id == Len(calls) + 1
      call == NewCall(caller, awaited, ResolveNestMode(options), options.isolationLevel)
      normalizedTransaction == NormalizedTransaction(call.nestMode, call.context)
      reuse == UsesGivenTransaction(call.nestMode, normalizedTransaction)
      transaction == IF reuse THEN normalizedTransaction ELSE Len(transactions) + 1
      context == IF transactionCls THEN id ELSE call.context
      started == [call EXCEPT !.transaction = transaction,
                              !.isReusedTransaction = (transaction = normalizedTransaction),
                              !.context = context]
  IN
  /\ Len(calls) < MaxCalls
  /\ IF ThrowsCompatibilityError(call.nestMode, normalizedTransaction, call.isolationLevel)
       THEN /\ calls' = Append(calls, Rejected(call, CompatibilityError))
            /\ UNCHANGED <<store, transactions>>
       ELSE /\ transactions' =
                 IF reuse THEN transactions
                 ELSE Append(transactions,
                             NewTransaction(normalizedTransaction, call.isolationLevel, id))
            /\ store' = IF transactionCls THEN ClsRun(store, context, transaction) ELSE store
            /\ calls' = Append(calls, WrappedCallbackStart(started))
  /\ UNCHANGED <<transactionCls, defaultTransactionNestMode>>
  /\ UNCHANGED bulkVars
  /\ UNCHANGED <<query, sessions>>

\* sequelize.transaction(options, callback) called by top-level code or by a
\* running callback.
TransactionCall(caller, awaited, options) ==
  /\ caller \in Callers
  /\ caller = 0 => ~awaited
  /\ TransactionCallBy(caller, awaited, options)

Step(c, next) ==
  /\ calls' = [calls EXCEPT ![c] = next]
  /\ UNCHANGED <<transactionCls, defaultTransactionNestMode, store, transactions>>
  /\ UNCHANGED bulkVars
  /\ UNCHANGED <<query, sessions>>

PrepareEnvironmentResolves(c) ==
  /\ calls[c].pc = "prepare"
  /\ Step(c, PrepareEnvironmentResolved([calls[c] EXCEPT !.prepareOutcome = "ok"]))

PrepareEnvironmentRejects(c, error) ==
  /\ calls[c].pc = "prepare"
  /\ Step(c, PrepareEnvironmentRejected([calls[c] EXCEPT !.prepareOutcome = error], error))

\* The callback has nothing left to wait for.
CallbackMaySettle(c) ==
  /\ calls[c].pc = "callback"
  /\ \A d \in CallIds : (calls[d].caller = c /\ calls[d].awaited) => calls[d].pc = "done"

CallbackResolves(c, result) ==
  /\ CallbackMaySettle(c)
  /\ Step(c, CallbackResolved([calls[c] EXCEPT !.uow = "resolved", !.uowValue = result],
                              result))

CallbackRejects(c, error) ==
  /\ CallbackMaySettle(c)
  /\ Step(c, CallbackRejected([calls[c] EXCEPT !.uow = "rejected", !.uowValue = error],
                              error))

RollbackSettles(c, outcome) ==
  /\ calls[c].pc = "rollback"
  /\ Step(c, RollbackSettled([calls[c] EXCEPT !.rollbackOutcome = outcome], outcome))

CommitResolves(c) ==
  /\ calls[c].pc = "commit"
  /\ Step(c, CommitResolved([calls[c] EXCEPT !.commitOutcome = "ok"]))

CommitRejects(c, error) ==
  /\ calls[c].pc = "commit"
  /\ Step(c, CommitRejected([calls[c] EXCEPT !.commitOutcome = error], error))

Next ==
  \/ \E caller \in Callers, awaited \in BOOLEAN : TransactionCallWithoutCallback(caller, awaited)
  \/ \E caller \in Callers, awaited \in BOOLEAN, options \in CallOptions :
       TransactionCall(caller, awaited, options)
  \/ \E c \in CallIds : PrepareEnvironmentResolves(c)
  \/ \E c \in CallIds, error \in ConnectionErrors : PrepareEnvironmentRejects(c, error)
  \/ \E c \in CallIds, result \in Results : CallbackResolves(c, result)
  \/ \E c \in CallIds, error \in CallbackErrors : CallbackRejects(c, error)
  \/ \E c \in CallIds, outcome \in RollbackErrors \cup {"ok"} : RollbackSettles(c, outcome)
  \/ \E c \in CallIds : CommitResolves(c)
  \/ \E c \in CallIds, error \in ConnectionErrors : CommitRejects(c, error)

Spec == Init /\ [][Next]_vars

\* sequelize.startUnmanagedTransaction(options), from its entry to its await.
StartUnmanagedTransaction(caller, awaited, isolationLevel) ==
  LET id == Len(calls) + 1
      call == NewCall(caller, awaited, Undefined, isolationLevel)
      transaction == Len(transactions) + 1
  IN
  /\ Len(calls) < MaxCalls
  /\ caller \in Callers
  /\ caller = 0 => ~awaited
  /\ transactions' = Append(transactions, NewTransaction(NoTransaction, isolationLevel, id))
  /\ store' = UnmanagedStore(store, call.context, transaction)
  /\ calls' = Append(calls, UnmanagedStart(call, transaction))
  /\ UNCHANGED <<transactionCls, defaultTransactionNestMode>>
  /\ UNCHANGED bulkVars
  /\ UNCHANGED <<query, sessions>>

UnmanagedPrepareResolves(c) ==
  /\ calls[c].pc = "unmanagedPrepare"
  /\ Step(c, UnmanagedPrepareResolved([calls[c] EXCEPT !.prepareOutcome = "ok"]))

UnmanagedPrepareRejects(c, error) ==
  /\ calls[c].pc = "unmanagedPrepare"
  /\ Step(c, UnmanagedPrepareRejected([calls[c] EXCEPT !.prepareOutcome = error], error))

\* Managed and unmanaged transactions side by side.
NextUnmanaged ==
  \/ Next
  \/ \E caller \in Callers, awaited \in BOOLEAN, isolationLevel \in IsolationLevels :
       StartUnmanagedTransaction(caller, awaited, isolationLevel)
  \/ \E c \in CallIds : UnmanagedPrepareResolves(c)
  \/ \E c \in CallIds, error \in ConnectionErrors : UnmanagedPrepareRejects(c, error)

SpecUnmanaged == Init /\ [][NextUnmanaged]_vars

\* Work a callback started and did not wait for (a timer, a promise it let
\* float) outlives the callback and keeps the callback's async context.
DetachedCallers ==
  {c \in CallIds : calls[c].callbacks > 0 /\ calls[c].pc \in {"commit", "rollback", "done"}}

\* sequelize.transaction(options, callback) called by such work.
DetachedTransactionCall(caller, options) ==
  /\ caller \in DetachedCallers
  /\ TransactionCallBy(caller, FALSE, options)

NextDetached ==
  \/ Next
  \/ \E caller \in CallIds, options \in CallOptions : DetachedTransactionCall(caller, options)

SpecDetached == Init /\ [][NextDetached]_vars

\* The instance constructed with disableClsTransactions: _setupTransactionCls
\* has not run and #transactionCls is undefined.
InitNoCls ==
  /\ transactionCls = FALSE
  /\ defaultTransactionNestMode = "reuse"
  /\ store = [c \in Contexts |-> NoTransaction]
  /\ transactions = <<>>
  /\ calls = <<>>
  /\ InitBulkUnused
  /\ InitUnused

SpecNoCls == InitNoCls /\ [][Next]_vars

----------------------------------------------------------------------------
\* The model manager

\* The orders of the models 1..n.
ModelOrders(n) ==
  {p \in [1..n -> 1..n] : \A i, j \in 1..n : p[i] = p[j] => i = j}

\* Where model m stands in `order`.
PositionIn(order, m) ==
  CHOOSE i \in DOMAIN order : order[i] = m

\* The orders in which every model stands before the models it references.
TopoOrders(n, references) ==
  {p \in ModelOrders(n) :
     \A r \in references : PositionIn(p, r[1]) < PositionIn(p, r[2])}

\* modelManager.getModelsTopoSortedByForeignKey(): null when the foreign keys
\* form a cycle, else the models in one of their topological orders.
GetModelsTopoSortedByForeignKey(n, references) ==
  IF TopoOrders(n, references) = {}
    THEN {[cyclic |-> TRUE, order |-> <<>>]}
    ELSE {[cyclic |-> FALSE, order |-> p] : p \in TopoOrders(n, references)}

\* The foreign keys n models can have among themselves: <<a, b>> is a foreign
\* key of model a that references model b.
PossibleReferences(n) ==
  {r \in (1..n) \X (1..n) : r[1] # r[2]}

----------------------------------------------------------------------------
\* sequelize.truncate and sequelize.destroyAll

\* The cyclic graph is never looked at.
TruncateFailsCyclicNever(hasCyclicDependencies, options) ==
  FALSE

\* if (hasCyclicDependencies && !options?.cascade && !options?.withoutForeignKeyChecks)
TruncateFailsCyclic(hasCyclicDependencies, options) ==
  hasCyclicDependencies /\ ~options.cascade /\ ~options.withoutForeignKeyChecks

\* The dialect is never asked whether it can disable foreign key checks.
ForeignKeyChecksUnsupportedNever(foreignKeyChecksDisableable) ==
  FALSE

\* if (!this.dialect.supports.constraints.foreignKeyChecksDisableable)
ForeignKeyChecksUnsupported(foreignKeyChecksDisableable) ==
  ~foreignKeyChecksDisableable

\* With cascade the models are truncated like without it, all at once.
TruncateBranchCascadeParallel(options) ==
  IF options.withoutForeignKeyChecks THEN "withoutForeignKeyChecks"
  ELSE "parallel"

\* The branch of truncate taken once the cyclic check has passed.
TruncateBranch(options) ==
  IF options.withoutForeignKeyChecks THEN "withoutForeignKeyChecks"
  ELSE IF options.cascade THEN "cascade"
  ELSE "parallel"

\* const models = sortedModels || this.modelManager.models (truncate)
TruncateModels(manager) ==
  IF manager.sorted.cyclic THEN manager.models ELSE manager.sorted.order

\* destroyAll has nothing to iterate over when the sort returns null.
DestroyAllModelsSortedOnly(manager) ==
  manager.sorted.order

\* const models = sortedModels || this.modelManager.models (destroyAll)
DestroyAllModels(manager) ==
  IF manager.sorted.cyclic THEN manager.models ELSE manager.sorted.order

\* The promise of the bulk call rejects.
BulkRejected(call, error) ==
  [call EXCEPT !.pc = "done", !.settled = "rejected", !.value = error]

\* The promise of the bulk call resolves.
BulkResolved(call) ==
  [call EXCEPT !.pc = "done", !.settled = "resolved", !.value = Undefined]

\* model.truncate(options) or model.destroy(options) is invoked on model m.
StartModelOp(ops, m, connection, checks) ==
  [ops EXCEPT ![m] = [ state |-> "inflight", error |-> "none",
                       connection |-> connection, checks |-> checks ]]

\* models.map(async model => model.truncate(options)): every model at once.
StartAllModelOps(ops, models, connection, checks) ==
  [m \in Models |->
     IF \E i \in DOMAIN models : models[i] = m
       THEN [ state |-> "inflight", error |-> "none",
              connection |-> connection, checks |-> checks ]
       ELSE ops[m]]

\* The models whose operation has failed.
FailedModels(ops, models) ==
  {m \in Models : (\E i \in DOMAIN models : models[i] = m) /\ ops[m].state = "failed"}

InitBulk ==
  /\ transactionCls = TRUE
  /\ defaultTransactionNestMode = "reuse"
  /\ store = [c \in Contexts |-> NoTransaction]
  /\ transactions = <<>>
  /\ calls = <<>>
  /\ \E n \in 1..MaxModels :
       \E references \in SUBSET PossibleReferences(n) :
         \E sorted \in GetModelsTopoSortedByForeignKey(n, references) :
           modelManager = [ models |-> [i \in 1..n |-> i],
                            references |-> references,
                            sorted |-> sorted ]
  /\ dialect \in [foreignKeyChecksDisableable : BOOLEAN]
  /\ bulk = NoBulk
  /\ modelOps = NoModelOps
  /\ InitUnused

TruncateOptions ==
  [ cascade : BOOLEAN, withoutForeignKeyChecks : BOOLEAN,
    limit : {FALSE}, truncate : {FALSE} ]

\* The keys present in the options of destroyAll; cascade and
\* withoutForeignKeyChecks are passed on to model.destroy.
DestroyAllOptions ==
  [ cascade : BOOLEAN, withoutForeignKeyChecks : BOOLEAN,
    limit : BOOLEAN, truncate : BOOLEAN ]

\* The loop does not await: every model is handed its operation at once.
LoopStartAllAtOnce(call) ==
  /\ bulk' = [call EXCEPT !.pc = "all", !.started = call.models]
  /\ modelOps' = StartAllModelOps(modelOps, call.models, NoConnection, call.checks)

\* for (const model of models) await ...: the first iteration.
LoopStart(call) ==
  IF call.models = <<>>
    THEN /\ bulk' = BulkResolved(call)
         /\ UNCHANGED modelOps
    ELSE /\ bulk' = [call EXCEPT !.pc = "loop", !.index = 1,
                                 !.started = <<call.models[1]>>]
         /\ modelOps' = StartModelOp(modelOps, call.models[1], NoConnection, call.checks)

\* await Promise.all(models.map(...)): its first half, the map.
PromiseAllStart(call, connection) ==
  /\ bulk' = [call EXCEPT !.pc = "all", !.started = call.models]
  /\ modelOps' = StartAllModelOps(modelOps, call.models, connection, call.checks)

\* sequelize.truncate(options), from its entry to its first await.
Truncate(options) ==
  LET call == [NoBulk EXCEPT !.op = "truncate", !.options = options,
                             !.models = TruncateModels(modelManager)]
  IN
  /\ bulk.op = "none"
  /\ IF TruncateFailsCyclic(modelManager.sorted.cyclic, options)
       THEN /\ bulk' = BulkRejected(call, CyclicReferencesError)
            /\ UNCHANGED modelOps
     ELSE IF TruncateBranch(options) = "withoutForeignKeyChecks"
       THEN IF ForeignKeyChecksUnsupported(dialect.foreignKeyChecksDisableable)
              THEN /\ bulk' = BulkRejected(call, ForeignKeyChecksError)
                   /\ UNCHANGED modelOps
              ELSE /\ bulk' = [call EXCEPT !.pc = "disableChecks", !.entered = @ + 1]
                   /\ UNCHANGED modelOps
     ELSE IF TruncateBranch(options) = "cascade"
       THEN LoopStart(call)
     ELSE PromiseAllStart(call, NoConnection)
  /\ UNCHANGED <<modelManager, dialect>>
  /\ UNCHANGED transactionVars
  /\ UNCHANGED <<query, sessions>>

\* sequelize.destroyAll(options), from its entry to its first await.
DestroyAll(options) ==
  LET call == [NoBulk EXCEPT !.op = "destroyAll", !.options = options,
                             !.models = DestroyAllModels(modelManager)]
  IN
  /\ bulk.op = "none"
  /\ IF options.limit
       THEN /\ bulk' = BulkRejected(call, LimitOptionError)
            /\ UNCHANGED modelOps
     ELSE IF options.truncate
       THEN /\ bulk' = BulkRejected(call, TruncateOptionError)
            /\ UNCHANGED modelOps
     ELSE LoopStart(call)
  /\ UNCHANGED <<modelManager, dialect>>
  /\ UNCHANGED transactionVars
  /\ UNCHANGED <<query, sessions>>

\* queryInterface.withoutForeignKeyChecks has its connection, has disabled the
\* foreign key checks on it and calls its callback with it.
ForeignKeyChecksDisabled ==
  /\ bulk.pc = "disableChecks"
  /\ PromiseAllStart([bulk EXCEPT !.checks = "disabled"], 1)
  /\ UNCHANGED <<modelManager, dialect>>
  /\ UNCHANGED transactionVars
  /\ UNCHANGED <<query, sessions>>

\* The model.truncate() or model.destroy() of model m returns.
ModelOpResolves(m) ==
  /\ modelOps[m].state = "inflight"
  /\ modelOps' = [modelOps EXCEPT ![m].state = "ok"]
  /\ UNCHANGED <<modelManager, dialect, bulk>>
  /\ UNCHANGED transactionVars
  /\ UNCHANGED <<query, sessions>>

\* The model.truncate() or model.destroy() of model m throws.
ModelOpRejects(m, error) ==
  /\ modelOps[m].state = "inflight"
  /\ modelOps' = [modelOps EXCEPT ![m].state = "failed", ![m].error = error]
  /\ UNCHANGED <<modelManager, dialect, bulk>>
  /\ UNCHANGED transactionVars
  /\ UNCHANGED <<query, sessions>>

\* The loop goes on after its await: the next model, the end, or the error.
LoopContinues ==
  LET m == bulk.models[bulk.index] IN
  /\ bulk.pc = "loop"
  /\ modelOps[m].state \in {"ok", "failed"}
  /\ IF modelOps[m].state = "failed"
       THEN /\ bulk' = BulkRejected(bulk, modelOps[m].error)
            /\ UNCHANGED modelOps
     ELSE IF bulk.index = Len(bulk.models)
       THEN /\ bulk' = BulkResolved(bulk)
            /\ UNCHANGED modelOps
     ELSE /\ bulk' = [bulk EXCEPT !.index = @ + 1,
                                  !.started = Append(@, bulk.models[bulk.index + 1])]
          /\ modelOps' = StartModelOp(modelOps, bulk.models[bulk.index + 1],
                                      NoConnection, bulk.checks)
  /\ UNCHANGED <<modelManager, dialect>>
  /\ UNCHANGED transactionVars
  /\ UNCHANGED <<query, sessions>>

\* What the bulk call does once its Promise.all has settled with `outcome`:
\* inside queryInterface.withoutForeignKeyChecks the checks are restored first.
AfterPromiseAll(call, outcome) ==
  IF call.checks = "disabled"
    THEN [call EXCEPT !.pc = "restoreChecks", !.outcome = outcome]
  ELSE IF outcome = "ok" THEN BulkResolved(call)
  ELSE BulkRejected(call, outcome)

\* Promise.all settles: it rejects as soon as one model has failed and
\* resolves when every model is done.
PromiseAllSettles ==
  LET failed == FailedModels(modelOps, bulk.models) IN
  /\ bulk.pc = "all"
  /\ IF failed # {}
       THEN bulk' = AfterPromiseAll(bulk, modelOps[CHOOSE m \in failed : TRUE].error)
       ELSE /\ \A i \in DOMAIN bulk.models : modelOps[bulk.models[i]].state = "ok"
            /\ bulk' = AfterPromiseAll(bulk, "ok")
  /\ UNCHANGED <<modelManager, dialect, modelOps>>
  /\ UNCHANGED transactionVars
  /\ UNCHANGED <<query, sessions>>

\* queryInterface.withoutForeignKeyChecks restores the checks after its
\* callback and settles like it.
ForeignKeyChecksRestored ==
  /\ bulk.pc = "restoreChecks"
  /\ bulk' = IF bulk.outcome = "ok"
               THEN BulkResolved([bulk EXCEPT !.checks = "enabled"])
               ELSE BulkRejected([bulk EXCEPT !.checks = "enabled"], bulk.outcome)
  /\ UNCHANGED <<modelManager, dialect, modelOps>>
  /\ UNCHANGED transactionVars
  /\ UNCHANGED <<query, sessions>>

NextBulk ==
  \/ \E options \in TruncateOptions : Truncate(options)
  \/ \E options \in DestroyAllOptions : DestroyAll(options)
  \/ ForeignKeyChecksDisabled
  \/ \E m \in Models : ModelOpResolves(m)
  \/ \E m \in Models, error \in QueryErrors : ModelOpRejects(m, error)
  \/ LoopContinues
  \/ PromiseAllSettles
  \/ ForeignKeyChecksRestored

SpecBulk == InitBulk /\ [][NextBulk]_vars

----------------------------------------------------------------------------
\* SnowflakeQueryGeneratorTypeScript
\* (src/packages/core/src/dialects/snowflake/query-generator-typescript.ts)

DialectNotSupportedError == "DialectNotSupportedError"

UnknownOptionError == "UnknownOptionError"

\* The methods that take an options parameter.
QueryMethods ==
  { "createDatabaseQuery", "listDatabasesQuery", "listSchemasQuery",
    "listTablesQuery", "truncateTableQuery", "showConstraintsQuery" }

\* showConstraintsQuery knows one filter only.
SupportedOptionsWithoutConstraintType(op) ==
  IF op = "showConstraintsQuery" THEN {"constraintName"} ELSE {}

\* The *_QUERY_SUPPORTED_OPTIONS sets of the dialect.
SupportedOptions(op) ==
  IF op = "showConstraintsQuery" THEN {"constraintName", "constraintType"} ELSE {}

\* The *_QUERY_SUPPORTABLE_OPTIONS sets of the abstract query generator: per
\* method, the keys the dialect supports and a key the abstract contract knows
\* and the dialect does not implement.
SupportableOptions(op) ==
  IF op = "createDatabaseQuery" THEN {"charset"}
  ELSE IF op = "listDatabasesQuery" THEN {"skip"}
  ELSE IF op = "truncateTableQuery" THEN {"cascade"}
  ELSE IF op = "showConstraintsQuery" THEN {"columnName", "constraintName", "constraintType"}
  ELSE {}

\* Every method validates the options it is given.
ValidatesOptionsAlways(op) ==
  TRUE

\* The methods whose body starts with `if (options) rejectInvalidOptions(...)`.
ValidatesOptions(op) ==
  op \in { "createDatabaseQuery", "listDatabasesQuery",
           "truncateTableQuery", "showConstraintsQuery" }

\* rejectInvalidOptions(methodName, dialectName, supportable, supported, options):
\* the ways it can end. Each key outside `supported` is a reason to fail, with
\* the error its membership in `supportable` decides; it fails for one of them.
RejectInvalidOptions(supportable, supported, options) ==
  LET offending == (DOMAIN options) \ supported IN
  IF offending = {} THEN {"ok"}
  ELSE { IF key \in supportable THEN DialectNotSupportedError ELSE UnknownOptionError :
           key \in offending }

\* A JavaScript value: a string, or an array holding one string.
StringValue(text) == [type |-> "string", text |-> text]

ArrayValue(text) == [type |-> "array", text |-> text]

\* What `value ? a : b` takes for true.
Truthy(value) ==
  value.type = "array" \/ value.text # ""

\* Array.isArray(value)
IsArray(value) ==
  value.type = "array"

\* options?.key as a condition.
OptionGiven(supplied, options, key) ==
  supplied /\ key \in DOMAIN options /\ Truthy(options[key])

\* A fragment of SQL is a sequence of pieces: SQL text written in the method,
\* a value passed through this.escape, an identifier passed through
\* this.quoteIdentifier or this.quoteTable.
Sql(text) == <<[kind |-> "sql", text |-> text]>>

Escape(text) == <<[kind |-> "literal", text |-> text]>>

QuoteIdentifier(text) == <<[kind |-> "identifier", text |-> text]>>

\* schemas.map(schema => this.escape(schema)).join(', ')
RECURSIVE EscapeAll(_)
EscapeAll(texts) ==
  IF texts = <<>> THEN <<>> ELSE Escape(Head(texts)) \o EscapeAll(Tail(texts))

\* joinSQLFragments(fragments): the non-empty fragments, in their order.
JoinSQLFragments(fragments) ==
  SelectSeq(fragments, LAMBDA fragment : fragment # <<>>)

\* this.#internals.getTechnicalSchemaNames()
TechnicalSchemaNames == <<"INFORMATION_SCHEMA">>

CreateDatabaseSql(database) ==
  JoinSQLFragments(<< Sql("CREATE DATABASE IF NOT EXISTS") \o QuoteIdentifier(database) >>)

ListDatabasesSql ==
  << Sql("SHOW DATABASES") >>

ListSchemasSql(supplied, options) ==
  LET schemasToSkip ==
        IF supplied /\ "skip" \in DOMAIN options /\ IsArray(options["skip"])
          THEN TechnicalSchemaNames \o <<options["skip"].text>>
          ELSE TechnicalSchemaNames
  IN JoinSQLFragments(<<
       Sql("SELECT SCHEMA_NAME AS schema"),
       Sql("FROM INFORMATION_SCHEMA.SCHEMATA"),
       Sql("WHERE SCHEMA_NAME NOT IN (") \o EscapeAll(schemasToSkip) \o Sql(")") >>)

\* Both schema predicates are emitted when a schema is given.
ListTablesSqlBothPredicates(supplied, options) ==
  JoinSQLFragments(<<
    Sql("SELECT TABLE_NAME AS tableName,"),
    Sql("TABLE_SCHEMA AS schema"),
    Sql("FROM INFORMATION_SCHEMA.TABLES WHERE TABLE_TYPE = 'BASE TABLE'"),
    IF OptionGiven(supplied, options, "schema")
      THEN Sql("AND TABLE_SCHEMA =") \o Escape(options["schema"].text)
      ELSE <<>>,
    Sql("AND TABLE_SCHEMA NOT IN (") \o EscapeAll(TechnicalSchemaNames) \o Sql(")"),
    Sql("ORDER BY TABLE_SCHEMA, TABLE_NAME") >>)

ListTablesSql(supplied, options) ==
  JoinSQLFragments(<<
    Sql("SELECT TABLE_NAME AS tableName,"),
    Sql("TABLE_SCHEMA AS schema"),
    Sql("FROM INFORMATION_SCHEMA.TABLES WHERE TABLE_TYPE = 'BASE TABLE'"),
    IF OptionGiven(supplied, options, "schema")
      THEN Sql("AND TABLE_SCHEMA =") \o Escape(options["schema"].text)
      ELSE Sql("AND TABLE_SCHEMA NOT IN (") \o EscapeAll(TechnicalSchemaNames) \o Sql(")"),
    Sql("ORDER BY TABLE_SCHEMA, TABLE_NAME") >>)

TruncateTableSql(table) ==
  << Sql("TRUNCATE") \o QuoteIdentifier(table.tableName) >>

\* The constraint type is filtered whenever the constraint name is.
ShowConstraintsSqlTypeFollowsName(table, supplied, options) ==
  JoinSQLFragments(<<
    Sql("SELECT ... FROM INFORMATION_SCHEMA.TABLE_CONSTRAINTS c LEFT JOIN ... r LEFT JOIN ... fk"),
    Sql("WHERE c.TABLE_NAME =") \o Escape(table.tableName),
    Sql("AND c.TABLE_SCHEMA =") \o Escape(table.schema),
    IF OptionGiven(supplied, options, "constraintName")
      THEN Sql("AND c.CONSTRAINT_NAME =") \o Escape(options["constraintName"].text)
      ELSE <<>>,
    IF OptionGiven(supplied, options, "constraintName")
      THEN Sql("AND c.CONSTRAINT_TYPE =") \o Escape(options["constraintName"].text)
      ELSE <<>>,
    Sql("ORDER BY c.CONSTRAINT_NAME") >>)

\* The select list and the joins (lines 133-148) are one fragment here.
ShowConstraintsSql(table, supplied, options) ==
  JoinSQLFragments(<<
    Sql("SELECT ... FROM INFORMATION_SCHEMA.TABLE_CONSTRAINTS c LEFT JOIN ... r LEFT JOIN ... fk"),
    Sql("WHERE c.TABLE_NAME =") \o Escape(table.tableName),
    Sql("AND c.TABLE_SCHEMA =") \o Escape(table.schema),
    IF OptionGiven(supplied, options, "constraintName")
      THEN Sql("AND c.CONSTRAINT_NAME =") \o Escape(options["constraintName"].text)
      ELSE <<>>,
    IF OptionGiven(supplied, options, "constraintType")
      THEN Sql("AND c.CONSTRAINT_TYPE =") \o Escape(options["constraintType"].text)
      ELSE <<>>,
    Sql("ORDER BY c.CONSTRAINT_NAME") >>)

\* The values a caller gives to an option.
KeyValues(key) ==
  IF key = "skip" THEN {ArrayValue("APP"), StringValue("APP")}
  ELSE {StringValue(""), StringValue("APP")}

\* The keys callers put in the options of a method: those of its type, those
\* of the abstract contract, and a key nobody knows.
CandidateKeys(op) ==
  SupportableOptions(op) \cup {"bogus"} \cup
    ( IF op = "listSchemasQuery" THEN {"skip"}
      ELSE IF op = "listTablesQuery" THEN {"schema"}
      ELSE {} )

\* The options objects handed to method op.
OptionObjects(op) ==
  UNION { {options \in [keys -> UNION {KeyValues(key) : key \in keys}] :
             \A key \in keys : options[key] \in KeyValues(key)} :
          keys \in {k \in SUBSET CandidateKeys(op) : Cardinality(k) <= MaxOptionKeys} }

\* tableName after this.extractTableDetails
Tables ==
  { [tableName |-> "T1", schema |-> "PUBLIC"], [tableName |-> "T2", schema |-> "APP"] }

\* A method is called: it validates its options if it does so at all, and
\* returns the statement.
QueryCall(op, supplied, options, table, sql) ==
  /\ query.op = "none"
  /\ \E validation \in ( IF supplied /\ ValidatesOptions(op)
                           THEN RejectInvalidOptions(SupportableOptions(op),
                                                     SupportedOptions(op), options)
                           ELSE {"ok"} ) :
       query' = [ op |-> op, supplied |-> supplied, options |-> options, table |-> table,
                  validated |-> supplied /\ ValidatesOptions(op),
                  outcome |-> IF validation = "ok" THEN "returned" ELSE "thrown",
                  error |-> IF validation = "ok" THEN "none" ELSE validation,
                  sql |-> IF validation = "ok" THEN sql ELSE <<>> ]
  /\ UNCHANGED transactionVars
  /\ UNCHANGED bulkVars
  /\ UNCHANGED sessions

CreateDatabaseQuery(database, supplied, options) ==
  QueryCall("createDatabaseQuery", supplied, options, NoQuery.table,
            CreateDatabaseSql(database))

ListDatabasesQuery(supplied, options) ==
  QueryCall("listDatabasesQuery", supplied, options, NoQuery.table, ListDatabasesSql)

ListSchemasQuery(supplied, options) ==
  QueryCall("listSchemasQuery", supplied, options, NoQuery.table,
            ListSchemasSql(supplied, options))

ListTablesQuery(supplied, options) ==
  QueryCall("listTablesQuery", supplied, options, NoQuery.table,
            ListTablesSql(supplied, options))

TruncateTableQuery(table, supplied, options) ==
  QueryCall("truncateTableQuery", supplied, options, table, TruncateTableSql(table))

ShowConstraintsQuery(table, supplied, options) ==
  QueryCall("showConstraintsQuery", supplied, options, table,
            ShowConstraintsSql(table, supplied, options))

\* The options argument of a call of op: absent, or one of its objects.
\* An absent argument is written as not supplied, with no keys.
Arguments(op) ==
  {[supplied |-> FALSE, options |-> <<>>]}
    \cup {[supplied |-> TRUE, options |-> options] : options \in OptionObjects(op)}

NextQuery ==
  \/ \E a \in Arguments("createDatabaseQuery") :
       CreateDatabaseQuery("DB1", a.supplied, a.options)
  \/ \E a \in Arguments("listDatabasesQuery") : ListDatabasesQuery(a.supplied, a.options)
  \/ \E a \in Arguments("listSchemasQuery") : ListSchemasQuery(a.supplied, a.options)
  \/ \E a \in Arguments("listTablesQuery") : ListTablesQuery(a.supplied, a.options)
  \/ \E table \in Tables, a \in Arguments("truncateTableQuery") :
       TruncateTableQuery(table, a.supplied, a.options)
  \/ \E table \in Tables, a \in Arguments("showConstraintsQuery") :
       ShowConstraintsQuery(table, a.supplied, a.options)

\* The generator is stateless: each behaviour holds one call.
SpecQuery == Init /\ [][NextQuery]_vars

----------------------------------------------------------------------------
\* sequelize.withConnection

SessionIds == 1..Len(sessions)

\* The promise returned by withConnection settles like the callback did.
SessionSettled(s) ==
  [s EXCEPT !.pc = "done",
            !.settled = IF s.uow = "resolved" THEN "resolved" ELSE "rejected",
            !.value = s.uowValue]

\* The finally block destroys the connection and releases it as well.
SessionFinallyDestroysAndReleases(s) ==
  IF s.destroyConnection
    THEN [s EXCEPT !.pc = "destroy", !.destroys = @ + 1, !.releases = @ + 1]
    ELSE SessionSettled([s EXCEPT !.releases = @ + 1])

\* The finally block: await destroyConnection(connection), or
\* releaseConnection(connection), which is not awaited.
SessionFinally(s) ==
  IF s.destroyConnection
    THEN [s EXCEPT !.pc = "destroy", !.destroys = @ + 1]
    ELSE SessionSettled([s EXCEPT !.releases = @ + 1])

SessionStep(c, next) ==
  /\ sessions' = [sessions EXCEPT ![c] = next]
  /\ UNCHANGED transactionVars
  /\ UNCHANGED bulkVars
  /\ UNCHANGED query

\* sequelize.withConnection(options, callback) or withConnection(callback),
\* up to its await of getConnection; the second form has no destroyConnection.
WithConnection(destroyConnection) ==
  /\ Len(sessions) < MaxSessions
  /\ sessions' = Append(sessions, [NewSession EXCEPT !.pc = "getConnection",
                                                      !.destroyConnection = destroyConnection,
                                                      !.gets = @ + 1])
  /\ UNCHANGED transactionVars
  /\ UNCHANGED bulkVars
  /\ UNCHANGED query

\* await getConnection(options) returns a connection: callback(connection).
GetConnectionResolves(c) ==
  /\ sessions[c].pc = "getConnection"
  /\ SessionStep(c, [sessions[c] EXCEPT !.pc = "callback", !.connection = c,
                                        !.callbacks = @ + 1])

\* await getConnection(options) throws, outside the try block.
GetConnectionRejects(c, error) ==
  /\ sessions[c].pc = "getConnection"
  /\ SessionStep(c, [sessions[c] EXCEPT !.pc = "done", !.settled = "rejected",
                                        !.value = error])

\* await callback(connection) returns; the finally block runs.
SessionCallbackResolves(c, result) ==
  /\ sessions[c].pc = "callback"
  /\ SessionStep(c, SessionFinally([sessions[c] EXCEPT !.uow = "resolved",
                                                       !.uowValue = result]))

\* await callback(connection) throws; the finally block runs.
SessionCallbackRejects(c, error) ==
  /\ sessions[c].pc = "callback"
  /\ SessionStep(c, SessionFinally([sessions[c] EXCEPT !.uow = "rejected",
                                                       !.uowValue = error]))

\* await destroyConnection(connection) returns.
DestroyConnectionResolves(c) ==
  /\ sessions[c].pc = "destroy"
  /\ SessionStep(c, SessionSettled([sessions[c] EXCEPT !.destroyOutcome = "ok"]))

\* await destroyConnection(connection) throws inside the finally block: its
\* error takes the place of what the try block returned or threw.
DestroyConnectionRejects(c, error) ==
  /\ sessions[c].pc = "destroy"
  /\ SessionStep(c, [sessions[c] EXCEPT !.pc = "done", !.destroyOutcome = error,
                                        !.settled = "rejected", !.value = error])

NextSession ==
  \/ \E destroyConnection \in BOOLEAN : WithConnection(destroyConnection)
  \/ \E c \in SessionIds : GetConnectionResolves(c)
  \/ \E c \in SessionIds, error \in ConnectionErrors : GetConnectionRejects(c, error)
  \/ \E c \in SessionIds, result \in Results : SessionCallbackResolves(c, result)
  \/ \E c \in SessionIds, error \in Errors : SessionCallbackRejects(c, error)
  \/ \E c \in SessionIds : DestroyConnectionResolves(c)
  \/ \E c \in SessionIds, error \in ConnectionErrors : DestroyConnectionRejects(c, error)

SpecSession == Init /\ [][NextSession]_vars

----------------------------------------------------------------------------
\* Vocabulary of the properties

\* Call c constructed its transaction (it did not reuse one).
CreatedTransaction(c) ==
  calls[c].transaction # NoTransaction /\ ~calls[c].isReusedTransaction

\* The top-level call whose callback (transitively) made call c.
RECURSIVE ChainOf(_)
ChainOf(c) ==
  IF calls[c].caller = 0 THEN c ELSE ChainOf(calls[c].caller)

\* How often the calls 1..n invoked `op` (prepares, commits, rollbacks) on transaction t.
RECURSIVE InvocationsUpTo(_, _, _)
InvocationsUpTo(t, op, n) ==
  IF n = 0 THEN 0
  ELSE InvocationsUpTo(t, op, n - 1)
       + (IF calls[n].transaction = t THEN calls[n][op] ELSE 0)

Invocations(t, op) == InvocationsUpTo(t, op, Len(calls))

\* Call c was made inside a running callback while an ambient transaction existed.
HadAmbient(c) ==
  calls[c].caller # 0 /\ calls[c].before # NoTransaction

\* The ambient transaction call c found had the isolation level c asked for.
AmbientCompatible(c) ==
  transactions[calls[c].before].isolationLevel = calls[c].isolationLevel

----------------------------------------------------------------------------
\* C1

\* C1 as stated: a call that created its transaction, prepared it, and whose
\* callback resolved, has committed exactly once, never rolled back, and
\* resolves with the callback's value.
C1_AsStated ==
  \A c \in CallIds :
    (CreatedTransaction(c) /\ calls[c].prepareOutcome = "ok"
       /\ calls[c].uow = "resolved" /\ calls[c].pc = "done")
    => /\ calls[c].commits = 1
       /\ calls[c].rollbacks = 0
       /\ calls[c].settled = "resolved"
       /\ calls[c].value = calls[c].uowValue

\* C1 (amended): for a call that created its transaction and prepared it:
\* commit is invoked only once the callback has resolved; once the callback has
\* resolved commit has been invoked exactly once and rollback never; and when
\* that commit succeeds the call resolves with the callback's value.
C1_CommitOnSuccess ==
  \A c \in CallIds :
    (CreatedTransaction(c) /\ calls[c].prepareOutcome = "ok")
    => /\ calls[c].commits > 0 => calls[c].uow = "resolved"
       /\ calls[c].uow = "resolved" =>
            /\ calls[c].commits = 1
            /\ calls[c].rollbacks = 0
            /\ calls[c].pc \in {"commit", "done"}
       /\ (calls[c].uow = "resolved" /\ calls[c].commitOutcome = "ok")
            => /\ calls[c].pc = "done"
               /\ calls[c].settled = "resolved"
               /\ calls[c].value = calls[c].uowValue

C1_Witness ==
  \E c \in CallIds :
    /\ CreatedTransaction(c) /\ calls[c].prepareOutcome = "ok"
    /\ calls[c].uow = "resolved" /\ calls[c].commitOutcome = "ok"
    /\ calls[c].settled = "resolved" /\ calls[c].value \in Results

----------------------------------------------------------------------------
\* C2

\* C2: for a call that created its transaction and prepared it: once the
\* callback has thrown E, rollback has been invoked exactly once and commit
\* never, and the call ends rejected with E, whatever the rollback did.
C2_RollbackOnFailure ==
  \A c \in CallIds :
    (CreatedTransaction(c) /\ calls[c].prepareOutcome = "ok" /\ calls[c].uow = "rejected")
    => /\ calls[c].rollbacks = 1
       /\ calls[c].commits = 0
       /\ calls[c].pc \in {"rollback", "done"}
       /\ calls[c].pc = "done" =>
            /\ calls[c].settled = "rejected"
            /\ calls[c].value = calls[c].uowValue

C2_Witness ==
  \E c \in CallIds :
    /\ CreatedTransaction(c) /\ calls[c].prepareOutcome = "ok"
    /\ calls[c].uow = "rejected" /\ calls[c].pc = "done"
    /\ calls[c].rollbackOutcome = "ok"
    /\ calls[c].value \in Errors

----------------------------------------------------------------------------
\* C3

\* C3: when the callback threw E1 and the rollback that followed threw E2, the
\* call is rejected with E1, and so never with an E2 different from E1.
C3_RollbackFailureSuppressed ==
  \A c \in CallIds :
    (calls[c].uow = "rejected" /\ calls[c].rollbackOutcome \in Errors)
    => /\ calls[c].pc = "done"
       /\ calls[c].settled = "rejected"
       /\ calls[c].value = calls[c].uowValue
       /\ calls[c].rollbackOutcome # calls[c].uowValue
            => calls[c].value # calls[c].rollbackOutcome

C3_Witness ==
  \E c \in CallIds :
    /\ calls[c].uow = "rejected" /\ calls[c].uowValue = "E1"
    /\ calls[c].rollbackOutcome = "E2"
    /\ calls[c].settled = "rejected"

----------------------------------------------------------------------------
\* C4

\* Call c asked for mode reuse inside a running callback and found a compatible
\* ambient transaction.
ReuseCase(c) ==
  HadAmbient(c) /\ calls[c].nestMode = "reuse" /\ AmbientCompatible(c)

\* C4: a reuse call made inside the callback of another managed transaction,
\* with a compatible ambient transaction, hands its callback the caller's
\* transaction and itself invokes no prepareEnvironment, commit or rollback,
\* however its callback ends; every prepare, commit and rollback of that
\* transaction is the creating call's: one prepare, and one commit or rollback
\* once the creating call has ended after a started callback.
C4_Reuse ==
  \A c \in CallIds :
    ReuseCase(c)
    => LET t == calls[c].transaction
           creator == transactions[t].creator
       IN /\ t = calls[calls[c].caller].transaction
          /\ t = calls[c].before
          /\ calls[c].callbacks = 1 /\ calls[c].received = t
          /\ calls[c].prepares = 0 /\ calls[c].commits = 0 /\ calls[c].rollbacks = 0
          /\ calls[c].pc = "done" =>
               /\ calls[c].value = calls[c].uowValue
               /\ calls[c].settled = calls[c].uow
          /\ Invocations(t, "prepares") = 1 /\ calls[creator].prepares = 1
          /\ Invocations(t, "commits") + Invocations(t, "rollbacks")
               = calls[creator].commits + calls[creator].rollbacks
          /\ calls[creator].commits + calls[creator].rollbacks
               = (IF calls[creator].pc \in {"commit", "rollback", "done"} THEN 1 ELSE 0)

C4_Witness ==
  \E c \in CallIds :
    /\ ReuseCase(c) /\ calls[c].pc = "done" /\ calls[c].uow = "rejected"
    /\ calls[calls[c].caller].pc = "done"
    /\ calls[calls[c].caller].commits = 1
    /\ Invocations(calls[c].transaction, "prepares") = 1

----------------------------------------------------------------------------
\* C5

\* C5: a call in mode separate made inside the callback of another managed
\* transaction constructs a transaction of its own, different from the ambient
\* one and from that of every call made before it, with no parent, whether or not the ambient
\* transaction is compatible with its options; it prepares it, and commits it or
\* rolls it back by the outcome of its own callback alone.
C5_Separate ==
  \A c \in CallIds :
    (calls[c].caller # 0 /\ calls[c].nestMode = "separate")
    => LET t == calls[c].transaction
       IN /\ CreatedTransaction(c)
          /\ t \in TransactionIds
          /\ transactions[t].creator = c
          /\ transactions[t].parent = NoTransaction
          /\ t # calls[c].before
          /\ \A d \in CallIds : d < c => calls[d].transaction # t
          /\ \A u \in TransactionIds \ {t} : transactions[u].creator # c
          /\ calls[c].value # CompatibilityError
          /\ calls[c].prepares = 1
          /\ calls[c].uow = "none" => calls[c].commits = 0 /\ calls[c].rollbacks = 0
          /\ calls[c].uow = "resolved" => calls[c].commits = 1 /\ calls[c].rollbacks = 0
          /\ calls[c].uow = "rejected" => calls[c].commits = 0 /\ calls[c].rollbacks = 1

C5_Witness ==
  \E c \in CallIds :
    /\ calls[c].caller # 0 /\ calls[c].nestMode = "separate"
    /\ calls[c].before # NoTransaction /\ ~AmbientCompatible(c)
    /\ calls[c].pc = "done" /\ calls[c].commits = 1
    /\ calls[calls[c].caller].pc = "done" /\ calls[calls[c].caller].rollbacks = 1

----------------------------------------------------------------------------
\* C6

\* Call c asked for mode savepoint inside a running callback and found a
\* compatible ambient transaction.
SavepointCase(c) ==
  HadAmbient(c) /\ calls[c].nestMode = "savepoint" /\ AmbientCompatible(c)

\* C6: a savepoint call that finds a compatible ambient transaction T constructs
\* a transaction different from T whose parent is T; what the call prepares,
\* commits or rolls back is that new transaction, and every commit or rollback
\* of T is invoked by the call that created T.
C6_Savepoint ==
  \A c \in CallIds :
    SavepointCase(c)
    => LET t == calls[c].transaction
           T == calls[c].before
       IN /\ CreatedTransaction(c)
          /\ t \in TransactionIds /\ t # T
          /\ transactions[t].creator = c
          /\ transactions[t].parent = T
          /\ calls[c].prepares = 1
          /\ calls[c].callbacks > 0 => calls[c].received = t
          /\ calls[c].commits + calls[c].rollbacks
               = (IF calls[c].uow = "none" THEN 0 ELSE 1)
          /\ \A d \in CallIds :
               (calls[d].transaction = T /\ calls[d].commits + calls[d].rollbacks > 0)
               => d = transactions[T].creator /\ d # c

C6_Witness ==
  \E c \in CallIds :
    /\ SavepointCase(c) /\ calls[c].pc = "done" /\ calls[c].rollbacks = 1
    /\ transactions[calls[c].transaction].parent = calls[c].before
    /\ calls[calls[c].caller].pc = "callback"

----------------------------------------------------------------------------
\* C7

\* Call c asked for mode reuse or savepoint and found an incompatible ambient
\* transaction.
IncompatibleCase(c) ==
  /\ calls[c].before # NoTransaction
  /\ calls[c].nestMode \in {"reuse", "savepoint"}
  /\ ~AmbientCompatible(c)

\* C7: a reuse or savepoint call that finds an incompatible ambient transaction
\* is rejected with the compatibility error on entry: it has no transaction,
\* constructed none, and invoked neither prepareEnvironment nor the callback nor
\* commit nor rollback.
C7_IncompatibleFailsFast ==
  \A c \in CallIds :
    IncompatibleCase(c)
    => /\ calls[c].pc = "done"
       /\ calls[c].settled = "rejected"
       /\ calls[c].value = CompatibilityError
       /\ calls[c].transaction = NoTransaction
       /\ \A t \in TransactionIds : transactions[t].creator # c
       /\ calls[c].prepares = 0 /\ calls[c].callbacks = 0
       /\ calls[c].commits = 0 /\ calls[c].rollbacks = 0

C7_Witness ==
  \E c \in CallIds :
    /\ IncompatibleCase(c) /\ calls[c].nestMode = "savepoint"
    /\ calls[c].value = CompatibilityError
    /\ Len(transactions) = 1

----------------------------------------------------------------------------
\* C8

\* C8: while the callback of a call runs, getCurrentClsTransaction in the
\* call's async context returns the call's transaction; and once a call has
\* ended, however it ended, getCurrentClsTransaction in its caller's context
\* returns what it returned before the call.
C8_AmbientPropagationAndRestoration ==
  \A c \in CallIds :
    /\ calls[c].pc = "callback"
         => GetCurrentClsTransaction(calls[c].context) = calls[c].transaction
    /\ calls[c].pc = "done"
         => GetCurrentClsTransaction(ContextOf(calls[c].caller)) = calls[c].before

C8_Witness ==
  \E c \in CallIds :
    /\ calls[c].caller # 0 /\ calls[c].pc = "done"
    /\ calls[c].commitOutcome \in ConnectionErrors
    /\ calls[c].transaction # calls[c].before
    /\ calls[calls[c].caller].pc = "callback"
    /\ GetCurrentClsTransaction(calls[calls[c].caller].context)
         = calls[calls[c].caller].transaction

----------------------------------------------------------------------------
\* C9

\* C9 as stated: while prepareEnvironment, commit or rollback of a newly
\* created transaction runs, getCurrentClsTransaction in the call's async
\* context does not return that transaction.
C9_AsStated ==
  \A c \in CallIds :
    (CreatedTransaction(c) /\ calls[c].pc \in {"prepare", "commit", "rollback"})
    => GetCurrentClsTransaction(calls[c].context) # calls[c].transaction

\* C9 (amended): the store is set for the whole of wrappedCallback: in the
\* call's own async context getCurrentClsTransaction returns the newly created
\* transaction while prepareEnvironment, the callback, commit or rollback runs;
\* in the caller's context it returns what it returned before the call, never
\* the new transaction.
C9_StoreSpansWrappedCallback ==
  \A c \in CallIds :
    (CreatedTransaction(c) /\ calls[c].pc \in {"prepare", "callback", "commit", "rollback"})
    => /\ GetCurrentClsTransaction(calls[c].context) = calls[c].transaction
       /\ GetCurrentClsTransaction(ContextOf(calls[c].caller)) = calls[c].before
       /\ calls[c].before # calls[c].transaction

C9_Witness ==
  \E c, d \in CallIds :
    /\ CreatedTransaction(c) /\ calls[c].pc = "prepare"
    /\ CreatedTransaction(d) /\ calls[d].pc = "rollback"
    /\ GetCurrentClsTransaction(calls[c].context) = calls[c].transaction
    /\ GetCurrentClsTransaction(calls[d].context) = calls[d].transaction

----------------------------------------------------------------------------
\* C10

\* C10: getCurrentClsTransaction in the async context of a call never returns
\* the transaction of a call of another call chain (a chain is a top-level call
\* and the calls made inside its callback), whatever step either is at; nor
\* does top-level code ever see a transaction.
C10_ChainsIsolated ==
  /\ GetCurrentClsTransaction(0) = NoTransaction
  /\ \A c, d \in CallIds :
       (ChainOf(c) # ChainOf(d) /\ calls[d].transaction # NoTransaction)
       => /\ GetCurrentClsTransaction(calls[c].context) # calls[d].transaction
          /\ calls[c].transaction # calls[d].transaction

C10_Witness ==
  \E c, d \in CallIds :
    /\ calls[c].caller = 0 /\ calls[d].caller = 0 /\ c < d
    /\ calls[c].pc = "callback" /\ calls[d].pc = "commit"
    /\ GetCurrentClsTransaction(calls[c].context) = calls[c].transaction
    /\ GetCurrentClsTransaction(calls[d].context) = calls[d].transaction

----------------------------------------------------------------------------
\* C11

\* C11: on an instance without AsyncLocalStorage, getCurrentClsTransaction
\* returns undefined in every async context and every state, so no call ever
\* finds an ambient transaction; each call still constructs a transaction,
\* prepares it, hands it to its callback as the argument, and commits it when
\* the callback resolves or rolls it back when the callback throws.
C11_NoClsNoAmbient ==
  /\ ~transactionCls
  /\ \A x \in Contexts : GetCurrentClsTransaction(x) = NoTransaction
  /\ \A c \in CallIds :
       /\ calls[c].before = NoTransaction
       /\ calls[c].pc = "callback"
            => GetCurrentClsTransaction(calls[c].context) = NoTransaction
       /\ calls[c].value # MissingCallbackError =>
            /\ CreatedTransaction(c)
            /\ transactions[calls[c].transaction].creator = c
            /\ calls[c].prepares = 1
       /\ calls[c].callbacks > 0 =>
            /\ calls[c].callbacks = 1
            /\ calls[c].prepareOutcome = "ok"
            /\ calls[c].received = calls[c].transaction
            /\ calls[c].received # NoTransaction
       /\ calls[c].uow = "none" => calls[c].commits = 0 /\ calls[c].rollbacks = 0
       /\ calls[c].uow = "resolved" => calls[c].commits = 1 /\ calls[c].rollbacks = 0
       /\ calls[c].uow = "rejected" => calls[c].commits = 0 /\ calls[c].rollbacks = 1

C11_Witness ==
  \E c, d \in CallIds :
    /\ ~transactionCls
    /\ calls[d].caller = c /\ calls[d].nestMode = "reuse"
    /\ calls[c].pc = "callback" /\ calls[d].pc = "callback"
    /\ calls[d].received = calls[d].transaction
    /\ calls[d].transaction # calls[c].transaction
    /\ GetCurrentClsTransaction(calls[d].context) = NoTransaction

----------------------------------------------------------------------------
\* C12

\* C12: startUnmanagedTransaction constructs a transaction of its own, without
\* parent, invokes prepareEnvironment on it once and, when that succeeds,
\* returns it; it invokes neither a callback nor commit nor rollback; and it
\* leaves the AsyncLocalStorage alone: it runs in its caller's async context,
\* where getCurrentClsTransaction returns during and after the call what it
\* returned before, and the new transaction is the store of no context.
C12_Unmanaged ==
  \A c \in CallIds :
    calls[c].kind = "unmanaged"
    => LET t == calls[c].transaction
       IN /\ t \in TransactionIds
          /\ transactions[t].creator = c
          /\ transactions[t].parent = NoTransaction
          /\ \A d \in CallIds : d # c => calls[d].transaction # t
          /\ calls[c].prepares = 1
          /\ calls[c].callbacks = 0 /\ calls[c].commits = 0 /\ calls[c].rollbacks = 0
          /\ calls[c].prepareOutcome = "ok" =>
               /\ calls[c].settled = "resolved"
               /\ calls[c].returned = t
          /\ calls[c].context = ContextOf(calls[c].caller)
          /\ GetCurrentClsTransaction(calls[c].context) = calls[c].before
          /\ \A x \in Contexts : store[x] # t

C12_Witness ==
  \E c \in CallIds :
    /\ calls[c].kind = "unmanaged" /\ calls[c].caller # 0
    /\ calls[c].settled = "resolved" /\ calls[c].returned = calls[c].transaction
    /\ calls[c].before # NoTransaction
    /\ calls[calls[c].caller].pc = "callback"
    /\ GetCurrentClsTransaction(calls[calls[c].caller].context) = calls[c].before

----------------------------------------------------------------------------
\* C13

\* C13: when prepareEnvironment of a newly constructed transaction throws E, in
\* a managed call or in startUnmanagedTransaction, the call is rejected with E:
\* no callback was invoked, neither commit nor rollback was invoked, and no
\* transaction was returned.
C13_PrepareFailure ==
  \A c \in CallIds :
    calls[c].prepareOutcome \in ConnectionErrors
    => /\ calls[c].pc = "done"
       /\ calls[c].settled = "rejected"
       /\ calls[c].value = calls[c].prepareOutcome
       /\ calls[c].callbacks = 0 /\ calls[c].uow = "none"
       /\ calls[c].received = NoTransaction
       /\ calls[c].commits = 0 /\ calls[c].rollbacks = 0
       /\ calls[c].returned = NoTransaction

C13_Witness ==
  \E c, d \in CallIds :
    /\ calls[c].kind = "managed" /\ calls[c].prepareOutcome \in ConnectionErrors
    /\ calls[d].kind = "unmanaged" /\ calls[d].prepareOutcome \in ConnectionErrors
    /\ calls[c].settled = "rejected" /\ calls[d].settled = "rejected"

----------------------------------------------------------------------------
\* C14

\* C14: when the callback of a call that created its transaction resolved and
\* commit then threw E, the call is rejected with E, so the callback's value is
\* not returned, and no rollback was invoked.
C14_CommitFailure ==
  \A c \in CallIds :
    (calls[c].uow = "resolved" /\ calls[c].commitOutcome \in ConnectionErrors)
    => /\ calls[c].pc = "done"
       /\ calls[c].settled = "rejected"
       /\ calls[c].value = calls[c].commitOutcome
       /\ calls[c].value # calls[c].uowValue
       /\ calls[c].commits = 1
       /\ calls[c].rollbacks = 0 /\ calls[c].rollbackOutcome = "none"

C14_Witness ==
  \E c \in CallIds :
    /\ calls[c].uow = "resolved" /\ calls[c].uowValue \in Results
    /\ calls[c].commitOutcome \in ConnectionErrors
    /\ calls[c].settled = "rejected"

----------------------------------------------------------------------------
\* C15

\* A terminal operation (commit or rollback) has been invoked on transaction t.
TerminalInvoked(t) ==
  Invocations(t, "commits") + Invocations(t, "rollbacks") > 0

\* How often the callback of call c has been invoked in the list of calls cs.
CallbacksIn(cs, c) ==
  IF c \in DOMAIN cs THEN cs[c].callbacks ELSE 0

\* Prepare, commit and rollback of every created transaction: invoked by the
\* creating call only, prepare first, then that call's callback, then at most
\* one of commit and rollback, and only after prepare succeeded.
LifecycleOrder ==
  \A t \in TransactionIds :
    LET c == transactions[t].creator IN
    /\ calls[c].transaction = t /\ ~calls[c].isReusedTransaction
    /\ \A d \in CallIds \ {c} :
         calls[d].transaction = t
         => calls[d].prepares = 0 /\ calls[d].commits = 0 /\ calls[d].rollbacks = 0
    /\ calls[c].prepares = 1
    /\ calls[c].callbacks <= 1
    /\ calls[c].commits + calls[c].rollbacks <= 1
    /\ calls[c].callbacks > 0 => calls[c].prepareOutcome = "ok"
    /\ calls[c].commits + calls[c].rollbacks > 0
       => /\ calls[c].prepareOutcome = "ok"
          /\ calls[c].callbacks = 1
          /\ calls[c].uow # "none"
          /\ calls[c].pc \in {"commit", "rollback", "done"}
    /\ calls[c].commits > 0 => calls[c].uow = "resolved"
    /\ calls[c].rollbacks > 0 => calls[c].uow = "rejected"

\* C15 as stated: the lifecycle order holds and, in every step, a callback is
\* invoked with a transaction only if no commit or rollback has yet been
\* invoked on that transaction.
C15_AsStated ==
  [][ /\ LifecycleOrder'
      /\ \A c \in DOMAIN calls' :
           CallbacksIn(calls', c) > CallbacksIn(calls, c)
           => ~TerminalInvoked(calls'[c].received) ]_vars

\* C15: on every transaction a managed call created, prepare, commit and
\* rollback are invoked by the creating call only and in the order prepare,
\* that call's unit of work, at most one of commit and rollback; never both,
\* neither before prepare succeeded, and none of the three after a commit or
\* rollback, calls made by work the callbacks left floating included.
C15_LifecycleOrder ==
  LifecycleOrder

\* A call reusing the ambient transaction had its callback invoked with it
\* after the creating call committed it or rolled it back.
C15_Witness ==
  \E c \in CallIds :
    /\ calls[c].isReusedTransaction /\ calls[c].callbacks = 1
    /\ calls[calls[c].caller].pc \in {"commit", "rollback", "done"}
    /\ calls[calls[c].caller].transaction = calls[c].transaction
    /\ TerminalInvoked(calls[c].transaction)
    /\ calls[transactions[calls[c].transaction].creator].commits = 1

----------------------------------------------------------------------------
\* C16

\* Call c, its caller, and so on up to call p (excluded) were all awaited by
\* the callbacks that made them.
RECURSIVE AwaitedUpTo(_, _)
AwaitedUpTo(c, p) ==
  IF c = p THEN TRUE
  ELSE IF c = 0 THEN FALSE
  ELSE calls[c].awaited /\ AwaitedUpTo(calls[c].caller, p)

\* Call c is over and whatever commit or rollback it invoked has completed.
NestedCompleted(c) ==
  /\ calls[c].pc = "done"
  /\ calls[c].commits > 0 => calls[c].commitOutcome # "none"
  /\ calls[c].rollbacks > 0 => calls[c].rollbackOutcome # "none"
  /\ calls[c].prepareOutcome = "ok" => calls[c].commits + calls[c].rollbacks = 1

\* C16 as stated: once commit or rollback has been invoked on the parent
\* transaction, every savepoint call nested in it has completed its own commit
\* or rollback.
C16_AsStated ==
  \A c \in CallIds :
    (SavepointCase(c) /\ TerminalInvoked(calls[c].before)) => NestedCompleted(c)

\* C16: a savepoint call nested in transaction T has completed its commit or
\* rollback before commit or rollback is invoked on T, provided the call and
\* every call between it and the call that created T were awaited by the
\* callbacks that made them.
C16_SavepointCompletesFirst ==
  \A c \in CallIds :
    ( /\ SavepointCase(c)
      /\ AwaitedUpTo(c, transactions[calls[c].before].creator)
      /\ TerminalInvoked(calls[c].before) )
    => NestedCompleted(c)

C16_Witness ==
  \E c \in CallIds :
    /\ SavepointCase(c) /\ calls[c].awaited
    /\ calls[c].caller = transactions[calls[c].before].creator
    /\ calls[c].commitOutcome = "ok"
    /\ calls[calls[c].caller].commits = 1

----------------------------------------------------------------------------
\* C17

\* The models whose truncate or destroy is in flight.
InFlight ==
  {m \in Models : modelOps[m].state = "inflight"}

IsPrefix(s, t) ==
  Len(s) <= Len(t) /\ \A i \in 1..Len(s) : s[i] = t[i]

\* The order the bulk operations are to follow: the topological sort, or the
\* order of modelManager.models when the sort returned null.
ExpectedOrder ==
  IF modelManager.sorted.cyclic THEN modelManager.models ELSE modelManager.sorted.order

\* The operations of the bulk call were invoked one model at a time in the
\* expected order, each after the one before it had returned.
OneAtATimeInOrder ==
  /\ Cardinality(InFlight) <= 1
  /\ IsPrefix(bulk.started, ExpectedOrder)
  /\ \A i \in 1..Len(bulk.started) :
       i < Len(bulk.started) => modelOps[bulk.started[i]].state = "ok"
  /\ \A m \in Models :
       modelOps[m].state # "idle" <=> \E i \in 1..Len(bulk.started) : bulk.started[i] = m
  /\ bulk.settled = "resolved"
     => /\ bulk.started = ExpectedOrder
        /\ \A i \in 1..Len(bulk.started) : modelOps[bulk.started[i]].state = "ok"

----------------------------------------------------------------------------
\* C18

\* C18: a truncate call with withoutForeignKeyChecks set, on a dialect whose
\* foreignKeyChecksDisableable is false, is rejected; it has not entered
\* queryInterface.withoutForeignKeyChecks and no model's truncate is invoked.
C18_UnsupportedFailsFast ==
  ( /\ bulk.op = "truncate"
    /\ bulk.options.withoutForeignKeyChecks
    /\ ~dialect.foreignKeyChecksDisableable )
  => /\ bulk.pc = "done" /\ bulk.settled = "rejected"
     /\ bulk.value = ForeignKeyChecksError
     /\ bulk.entered = 0 /\ bulk.checks = "enabled"
     /\ bulk.started = <<>>
     /\ \A m \in Models : modelOps[m].state = "idle"

C18_Witness ==
  /\ bulk.op = "truncate" /\ bulk.options.withoutForeignKeyChecks
  /\ ~dialect.foreignKeyChecksDisableable
  /\ bulk.value = ForeignKeyChecksError
  /\ Len(modelManager.models) = MaxModels

----------------------------------------------------------------------------
\* C19

\* C19: over a cyclic graph a truncate call with neither cascade nor
\* withoutForeignKeyChecks is rejected with the cyclic-references error and no
\* model's truncate is invoked; with either option set the call is never
\* rejected with that error.
C19_CyclicFailsFast ==
  (bulk.op = "truncate" /\ modelManager.sorted.cyclic)
  => IF ~bulk.options.cascade /\ ~bulk.options.withoutForeignKeyChecks
       THEN /\ bulk.pc = "done" /\ bulk.settled = "rejected"
            /\ bulk.value = CyclicReferencesError
            /\ bulk.started = <<>> /\ bulk.entered = 0
            /\ \A m \in Models : modelOps[m].state = "idle"
       ELSE bulk.value # CyclicReferencesError

\* A cycle through all the models, truncated with neither option.
C19_Witness ==
  /\ bulk.op = "truncate" /\ modelManager.sorted.cyclic
  /\ Len(modelManager.models) = MaxModels
  /\ Cardinality(modelManager.references) = MaxModels
  /\ ~bulk.options.cascade /\ ~bulk.options.withoutForeignKeyChecks
  /\ bulk.value = CyclicReferencesError

----------------------------------------------------------------------------
\* C20

\* No model's destroy has been invoked.
NothingDestroyed ==
  bulk.started = <<>> /\ \A m \in Models : modelOps[m].state = "idle"

\* C20 as stated: over a cyclic graph a destroyAll call is rejected with the
\* cyclic-references error and destroys nothing, unless its options carry
\* cascade or withoutForeignKeyChecks.
C20_AsStated ==
  ( /\ bulk.op = "destroyAll" /\ modelManager.sorted.cyclic
    /\ ~bulk.options.cascade /\ ~bulk.options.withoutForeignKeyChecks )
  => /\ bulk.pc = "done" /\ bulk.settled = "rejected"
     /\ bulk.value = CyclicReferencesError
     /\ NothingDestroyed

\* C20: over a cyclic graph a destroyAll call is never rejected with the
\* cyclic-references error, whatever its options: unless they hold a limit or
\* truncate key, it invokes destroy on the models one at a time in the order
\* of modelManager.models and, when none of them fails, on all of them.
C20_DestroyAllIgnoresCycles ==
  (bulk.op = "destroyAll" /\ modelManager.sorted.cyclic)
  => /\ bulk.value # CyclicReferencesError
     /\ IF bulk.options.limit \/ bulk.options.truncate
          THEN /\ bulk.settled = "rejected" /\ NothingDestroyed
               /\ bulk.value \in {LimitOptionError, TruncateOptionError}
          ELSE /\ bulk.started # <<>>
               /\ Cardinality(InFlight) <= 1
               /\ IsPrefix(bulk.started, modelManager.models)
               /\ bulk.settled = "resolved"
                  => /\ bulk.started = modelManager.models
                     /\ \A i \in DOMAIN bulk.started :
                          modelOps[bulk.started[i]].state = "ok"
               /\ bulk.settled = "rejected"
                  => /\ bulk.value \in QueryErrors
                     /\ modelOps[bulk.started[Len(bulk.started)]].state = "failed"

C20_Witness ==
  /\ bulk.op = "destroyAll" /\ modelManager.sorted.cyclic
  /\ ~bulk.options.cascade /\ ~bulk.options.withoutForeignKeyChecks
  /\ bulk.settled = "resolved"
  /\ Len(bulk.started) = MaxModels
  /\ \A m \in Models : modelOps[m].state = "ok"

----------------------------------------------------------------------------
\* C21

\* The keys of the options the call was given.
SuppliedKeys == DOMAIN query.options

\* The methods that hand their options to rejectInvalidOptions.
ValidatingMethods ==
  {"createDatabaseQuery", "listDatabasesQuery", "truncateTableQuery", "showConstraintsQuery"}

\* The option keys a method reads or declares as supported.
KnownOptions(op) ==
  IF op = "listSchemasQuery" THEN {"skip"}
  ELSE IF op = "listTablesQuery" THEN {"schema"}
  ELSE SupportedOptions(op)

\* C21 as stated: each of the six methods validates the options it is given
\* and so rejects every key outside its supported set; without options it
\* never fails.
C21_AsStated ==
  query.op \in QueryMethods
  => /\ query.supplied
        => /\ query.validated
           /\ ~(SuppliedKeys \subseteq KnownOptions(query.op)) => query.outcome = "thrown"
     /\ ~query.supplied => query.outcome = "returned"

\* C21: createDatabaseQuery, listDatabasesQuery, truncateTableQuery and
\* showConstraintsQuery validate the options they are given and reject every
\* key outside their supported set; listSchemasQuery and listTablesQuery
\* validate nothing and return their statement whatever keys they are given;
\* without options no method fails.
C21_FourOfSixValidate ==
  /\ query.op \in ValidatingMethods
     => /\ query.validated = query.supplied
        /\ query.outcome = "thrown" <=> ~(SuppliedKeys \subseteq SupportedOptions(query.op))
  /\ query.op \in QueryMethods \ ValidatingMethods
     => ~query.validated /\ query.outcome = "returned" /\ query.sql # <<>>
  /\ (query.op \in QueryMethods /\ ~query.supplied) => query.outcome = "returned"

\* An unknown key is rejected by one method and accepted by another.
C21_Witness ==
  /\ query.op = "listTablesQuery" /\ query.supplied
  /\ "bogus" \in SuppliedKeys
  /\ query.outcome = "returned"

----------------------------------------------------------------------------
\* C22

\* The supplied keys the dialect does not support, by kind.
UnsupportedKeys == (SuppliedKeys \cap SupportableOptions(query.op)) \ SupportedOptions(query.op)

UnknownKeys == SuppliedKeys \ SupportableOptions(query.op)

\* What Snowflake's supported sets amount to.
SnowflakeSupport ==
  /\ query.op \in {"createDatabaseQuery", "listDatabasesQuery", "truncateTableQuery"}
     => (query.outcome = "thrown" <=> SuppliedKeys # {})
  /\ query.op = "showConstraintsQuery"
     => (query.outcome = "returned"
           <=> SuppliedKeys \subseteq {"constraintName", "constraintType"})

\* C22 as stated: validation succeeds when every key is supported, fails with
\* DialectNotSupportedError when some key is supportable and not supported,
\* and fails with UnknownOptionError when some key is not supportable.
C22_AsStated ==
  query.validated
  => /\ SupportedOptions(query.op) \subseteq SupportableOptions(query.op)
     /\ SuppliedKeys \subseteq SupportedOptions(query.op) => query.outcome = "returned"
     /\ UnsupportedKeys # {} => query.error = DialectNotSupportedError
     /\ UnknownKeys # {} => query.error = UnknownOptionError
     /\ SnowflakeSupport

\* C22: validation succeeds exactly when every key is supported; otherwise it
\* fails with DialectNotSupportedError or UnknownOptionError, the first only
\* if some key is supportable and not supported, the second only if some key
\* is not supportable, so that keys of one kind alone decide the error.
C22_Validation ==
  query.validated
  => /\ SupportedOptions(query.op) \subseteq SupportableOptions(query.op)
     /\ query.outcome = "returned" <=> SuppliedKeys \subseteq SupportedOptions(query.op)
     /\ query.outcome = "thrown"
        => /\ query.error \in {DialectNotSupportedError, UnknownOptionError}
           /\ query.error = DialectNotSupportedError => UnsupportedKeys # {}
           /\ query.error = UnknownOptionError => UnknownKeys # {}
     /\ SnowflakeSupport

\* Keys of both kinds in one options object.
C22_Witness ==
  /\ query.op = "showConstraintsQuery" /\ query.validated
  /\ UnsupportedKeys # {} /\ UnknownKeys # {}
  /\ "constraintName" \in SuppliedKeys
  /\ query.error = DialectNotSupportedError

----------------------------------------------------------------------------
\* C23

\* The statement holds a fragment that starts with the SQL text `text`.
HasFragment(text) ==
  \E i \in DOMAIN query.sql : query.sql[i][1] = Sql(text)[1]

\* The statement holds `fragment`.
HasExactFragment(fragment) ==
  \E i \in DOMAIN query.sql : query.sql[i] = fragment

\* The last fragment of the statement.
LastFragment == query.sql[Len(query.sql)]

\* The options hold `key`.
KeySupplied(key) ==
  query.supplied /\ key \in SuppliedKeys

\* The statement of listTablesQuery has the equality filter on the given
\* schema and no exclusion of the technical schemas.
SchemaFilterOnly ==
  /\ HasExactFragment(Sql("AND TABLE_SCHEMA =") \o Escape(query.options["schema"].text))
  /\ ~HasFragment("AND TABLE_SCHEMA NOT IN (")

\* It has the exclusion and no equality filter.
SchemaExclusionOnly ==
  /\ HasFragment("AND TABLE_SCHEMA NOT IN (")
  /\ ~HasFragment("AND TABLE_SCHEMA =")

\* C23 as stated: with a schema given the statement has the equality filter
\* only, without one the exclusion only, and it ends with the ordering.
C23_AsStated ==
  (query.op = "listTablesQuery" /\ query.outcome = "returned")
  => /\ IF KeySupplied("schema") THEN SchemaFilterOnly ELSE SchemaExclusionOnly
     /\ LastFragment = Sql("ORDER BY TABLE_SCHEMA, TABLE_NAME")

\* C23: with a schema that is not the empty string the statement of
\* listTablesQuery has the equality filter on that schema only; with no schema
\* or the empty string it has the exclusion of the technical schemas only; it
\* always ends with the ordering by schema and table name.
C23_OneSchemaPredicate ==
  (query.op = "listTablesQuery" /\ query.outcome = "returned")
  => /\ IF KeySupplied("schema") /\ query.options["schema"].text # ""
          THEN SchemaFilterOnly ELSE SchemaExclusionOnly
     /\ LastFragment = Sql("ORDER BY TABLE_SCHEMA, TABLE_NAME")

C23_Witness ==
  /\ query.op = "listTablesQuery" /\ query.outcome = "returned"
  /\ KeySupplied("schema") /\ query.options["schema"].text = "APP"
  /\ HasExactFragment(Sql("AND TABLE_SCHEMA =") \o Escape("APP"))

----------------------------------------------------------------------------
\* C24

\* The statement of showConstraintsQuery restricts column `column` to the
\* value of option `key`.
Restricts(column, key) ==
  HasExactFragment(Sql(column) \o Escape(query.options[key].text))

\* The table and schema restrictions and the ordering.
ShowConstraintsFrame ==
  /\ HasExactFragment(Sql("WHERE c.TABLE_NAME =") \o Escape(query.table.tableName))
  /\ HasExactFragment(Sql("AND c.TABLE_SCHEMA =") \o Escape(query.table.schema))
  /\ LastFragment = Sql("ORDER BY c.CONSTRAINT_NAME")

\* C24 as stated: the statement restricts the constraint name iff
\* constraintName is supplied and the constraint type iff constraintType is.
C24_AsStated ==
  (query.op = "showConstraintsQuery" /\ query.outcome = "returned")
  => /\ ShowConstraintsFrame
     /\ HasFragment("AND c.CONSTRAINT_NAME =") <=> KeySupplied("constraintName")
     /\ HasFragment("AND c.CONSTRAINT_TYPE =") <=> KeySupplied("constraintType")

\* C24: the statement of showConstraintsQuery always restricts the table name
\* and schema and ends with the ordering by constraint name; it restricts the
\* constraint name (type) to the given value iff constraintName
\* (constraintType) is supplied and is not the empty string.
C24_OptionalFilters ==
  (query.op = "showConstraintsQuery" /\ query.outcome = "returned")
  => /\ ShowConstraintsFrame
     /\ IF KeySupplied("constraintName") /\ query.options["constraintName"].text # ""
          THEN Restricts("AND c.CONSTRAINT_NAME =", "constraintName")
          ELSE ~HasFragment("AND c.CONSTRAINT_NAME =")
     /\ IF KeySupplied("constraintType") /\ query.options["constraintType"].text # ""
          THEN Restricts("AND c.CONSTRAINT_TYPE =", "constraintType")
          ELSE ~HasFragment("AND c.CONSTRAINT_TYPE =")

\* The name is filtered and the type is not.
C24_Witness ==
  /\ query.op = "showConstraintsQuery" /\ query.outcome = "returned"
  /\ KeySupplied("constraintName") /\ query.options["constraintName"].text = "APP"
  /\ ~KeySupplied("constraintType")
  /\ Restricts("AND c.CONSTRAINT_NAME =", "constraintName")
  /\ ~HasFragment("AND c.CONSTRAINT_TYPE =")

----------------------------------------------------------------------------
\* C25

\* The truncate call took the withoutForeignKeyChecks branch on a dialect
\* that can disable the checks.
ScopedTruncate ==
  /\ bulk.op = "truncate" /\ bulk.options.withoutForeignKeyChecks
  /\ dialect.foreignKeyChecksDisableable

\* C25: in such a call every model's truncate is invoked with the checks
\* disabled and with the connection of the scope, and the callback of the
\* scope has ended, and the checks are restored, only when no model's truncate
\* is still in flight.
C25_AsStated ==
  ScopedTruncate
  => /\ bulk.entered <= 1
     /\ \A m \in Models :
          modelOps[m].state # "idle"
          => modelOps[m].connection = 1 /\ modelOps[m].checks = "disabled"
     /\ bulk.pc \in {"restoreChecks", "done"} => InFlight = {}

----------------------------------------------------------------------------
\* C26

\* C26: over an acyclic graph a destroyAll call whose options hold a limit or
\* a truncate key is rejected before any destroy; otherwise it invokes destroy
\* on the models one at a time in the order of the topological sort, each
\* after the one before it has returned, on every model once when none fails,
\* and when one fails the call is rejected with its error and no later model
\* is destroyed.
C26_DestroyAllSequential ==
  (bulk.op = "destroyAll" /\ ~modelManager.sorted.cyclic)
  => IF bulk.options.limit
       THEN bulk.settled = "rejected" /\ bulk.value = LimitOptionError /\ NothingDestroyed
     ELSE IF bulk.options.truncate
       THEN bulk.settled = "rejected" /\ bulk.value = TruncateOptionError /\ NothingDestroyed
     ELSE /\ OneAtATimeInOrder
          /\ IsPrefix(bulk.started, modelManager.sorted.order)
          /\ \A i, j \in DOMAIN bulk.started : bulk.started[i] = bulk.started[j] => i = j
          /\ bulk.settled = "resolved" => Len(bulk.started) = Len(modelManager.models)
          /\ bulk.settled = "rejected"
             => /\ modelOps[bulk.started[Len(bulk.started)]].state = "failed"
                /\ bulk.value = modelOps[bulk.started[Len(bulk.started)]].error
          /\ \A m \in Models : modelOps[m].state = "failed"
               => /\ m = bulk.started[Len(bulk.started)]
                  /\ bulk.settled # "resolved"

\* The second of three models in a line of foreign keys fails: the third is
\* left alone.
C26_Witness ==
  /\ bulk.op = "destroyAll" /\ ~modelManager.sorted.cyclic
  /\ Cardinality(TopoOrders(Len(modelManager.models), modelManager.references)) = 1
  /\ Len(modelManager.models) = 3
  /\ bulk.settled = "rejected" /\ bulk.value \in QueryErrors
  /\ Len(bulk.started) = 2
  /\ modelOps[modelManager.sorted.order[1]].state = "ok"
  /\ modelOps[modelManager.sorted.order[3]].state = "idle"

----------------------------------------------------------------------------
\* C27

\* The connection of call c was handed back once, by the method the options
\* ask for, after the callback; without a connection nothing happened.
HandedBackOnce(c) ==
  LET s == sessions[c] IN
  /\ s.gets = 1 /\ s.callbacks <= 1
  /\ s.releases + s.destroys <= 1
  /\ s.releases + s.destroys = 1 <=> (s.connection # NoConnection /\ s.uow # "none")
  /\ s.destroys = 1 => s.destroyConnection
  /\ s.releases = 1 => ~s.destroyConnection
  /\ s.callbacks = 1 <=> s.connection # NoConnection
  /\ (s.pc = "done" /\ s.connection = NoConnection)
     => /\ s.callbacks = 0 /\ s.uow = "none"
        /\ s.releases = 0 /\ s.destroys = 0
        /\ s.settled = "rejected" /\ s.value \in ConnectionErrors
  /\ (s.pc = "done" /\ s.connection # NoConnection) => s.releases + s.destroys = 1
  /\ \A d \in SessionIds \ {c} :
       s.connection # NoConnection => sessions[d].connection # s.connection

\* Call c settled like its callback.
SettledLikeCallback(c) ==
  /\ sessions[c].settled = (IF sessions[c].uow = "resolved" THEN "resolved" ELSE "rejected")
  /\ sessions[c].value = sessions[c].uowValue

\* C27 as stated: every connection obtained is handed back once after the
\* callback, by destroyConnection or releaseConnection as the options ask,
\* nothing happens when getConnection fails, and the caller receives the
\* callback's result or error.
C27_AsStated ==
  \A c \in SessionIds :
    /\ HandedBackOnce(c)
    /\ (sessions[c].pc = "done" /\ sessions[c].connection # NoConnection)
       => SettledLikeCallback(c)

\* C27: every connection obtained is handed back once after the callback, by
\* destroyConnection or releaseConnection as the options ask, and nothing
\* happens when getConnection fails; the caller receives the callback's result
\* or error, except that a failure of destroyConnection is received in their
\* place.
C27_ConnectionAccounting ==
  \A c \in SessionIds :
    /\ HandedBackOnce(c)
    /\ (sessions[c].pc = "done" /\ sessions[c].connection # NoConnection)
       => IF sessions[c].destroyOutcome \in ConnectionErrors
            THEN /\ sessions[c].settled = "rejected"
                 /\ sessions[c].value = sessions[c].destroyOutcome
            ELSE SettledLikeCallback(c)

\* One callback threw and its connection was destroyed; another call never
\* got a connection.
C27_Witness ==
  \E c, d \in SessionIds :
    /\ sessions[c].pc = "done" /\ sessions[c].destroyConnection
    /\ sessions[c].uow = "rejected" /\ sessions[c].destroys = 1
    /\ sessions[c].destroyOutcome = "ok"
    /\ sessions[c].value \in Errors
    /\ sessions[d].pc = "done" /\ sessions[d].connection = NoConnection

====
